---- MODULE Spec2Model ----
(***************************************************************************)
(* A model of wuff.py: the Dog record, the DogData reusable iterator, the  *)
(* Singleton/DogDataCache process-wide cache, the analyze aggregation with *)
(* the DogStats summary, and the find, stats and create commands.          *)
(*                                                                         *)
(* Python values are modelled as follows.  Optional[T] is a sequence of    *)
(* length at most one: None is <<>>, a present value v is <<v>>.  A dict   *)
(* is the sequence of its (key, value) items in insertion order, which is  *)
(* the order dict.items() yields.  A str is a TLA+ string, len() is Len.   *)
(* A list comprehension with a condition, or filter(), is SelectSeq.  A    *)
(* CSV cell holding a number is the number (int() of its text).            *)
(***************************************************************************)
EXTENDS Integers, Sequences, FiniteSets, TLC

VARIABLES
    source,      \* the rows the dataset URL serves (csv.DictReader output)
    heap,        \* the DogData objects built so far: heap[i] = [data, current]
    instances,   \* Singleton._instances[DogDataCache]: None or Some(object id)
    fetches,     \* how many times DogData.retrieve has been called
    year,        \* ctx.obj["year"]: None or Some(int)
    arg_name,    \* the NAME argument of the find command
    pc,          \* position of the running command
    s,           \* the DogStats the stats command computed: None or Some(stats)
    result,      \* the list of dogs the find command selected
    output,      \* what the command reported on the console
    tpc,         \* per traversal: "idle", "iterating" or "done"
    yielded,     \* per traversal: the dogs __next__ has returned since its iter()
    tobj,        \* the DogData object a traversal or a caller holds (0: none)
    cpc,         \* per caller of DogDataCache(): position inside Singleton.__call__
    past,        \* history: how earlier traversals ended, or what earlier
                 \* calls of DogDataCache()() returned
    chosen_sex,  \* the local sex of the create command: None or Some(sex)
    image        \* the picture of the create command: "none", "requested"
                 \* (an HTTP request was sent), "partial" or "written"

vars == <<source, heap, instances, fetches, year, arg_name, pc, s, result,
          output, tpc, yielded, tobj, cpc, past, chosen_sex,
          image>>

-----------------------------------------------------------------------------
(* Bounds of the model. *)

\* longest dataset drawn freely from the row universe
MaxLen == 2
\* most distinct names per sex in the generated many-names datasets
MaxBulk == 11
\* most traversals begun on one collection
MaxIters == 3
\* most calls of DogDataCache()() in one process
MaxCalls == 3

-----------------------------------------------------------------------------
(* Python values. *)

None == <<>>
Some(v) == <<v>>

\* bool(x) for an Optional[int]: None and 0 are falsy
Truthy(x) == x # None /\ x[1] # 0

Min2(a, b) == IF a < b THEN a ELSE b

\* seq[:n]
Take(seq, n) == SubSeq(seq, 1, Min2(n, Len(seq)))

-----------------------------------------------------------------------------
(* Dog and its construction from a CSV row. *)

MALE == "m"
FEMALE == "f"

\* Dog.from_dict: the sex code "1"/"2" becomes the enumeration, the three
\* numeric cells become ints, further keys of the row are ignored.
from_dict(dic) ==
    [name        |-> dic.HundenameText,
     sex         |-> IF dic.SexHundCd = "1" THEN MALE ELSE FEMALE,
     birth_year  |-> dic.GebDatHundJahr,
     record_year |-> dic.StichtagDatJahr,
     count       |-> dic.AnzHunde]

Row(n, cd, by, ry, c) ==
    [HundenameText |-> n, SexHundCd |-> cd, GebDatHundJahr |-> by,
     StichtagDatJahr |-> ry, AnzHunde |-> c]

-----------------------------------------------------------------------------
(* The datasets the URL may serve. *)

Names == {"?", "Mi", "Bo", "Max"}
SexCodes == {"1", "2"}
RecordYears == {2020, 2021}
Counts == {1, 2}
BirthYears == {2015}

Rows == {Row(n, cd, by, ry, c) :
            n \in Names, cd \in SexCodes, by \in BirthYears,
            ry \in RecordYears, c \in Counts}

\* every sequence of at most n elements of S
RECURSIVE SeqsOver(_, _)
SeqsOver(S, n) ==
    IF n = 0 THEN {<<>>}
    ELSE LET shorter == SeqsOver(S, n - 1)
         IN  shorter \cup {Append(q, r) : q \in shorter, r \in S}

\* every sequence of at most n rows
SeqsUpTo(n) == SeqsOver(Rows, n)

\* names of the many-names datasets; the first two are also in Names
BulkNames == <<"Bo", "Max", "Rex", "Luna", "Bella", "Rocky", "Kira",
               "Balu", "Nala", "Simba", "Lucky", "Chico", "Emma">>

Patterns == 1..3

\* the count of the i-th many-names row: all equal, rising, or mixed
BulkCount(pat, i) ==
    CASE pat = 1 -> 1
      [] pat = 2 -> i
      [] OTHER   -> (i % 3) + 1

\* nm male rows then nf female rows, one per name, all of record year 2020
Bulk(nm, nf, pat) ==
    [i \in 1..(nm + nf) |->
        IF i <= nm
        THEN Row(BulkNames[i], "1", 2015, 2020, BulkCount(pat, i))
        ELSE Row(BulkNames[i - nm], "2", 2015, 2020, BulkCount(pat, i))]

\* how many names a sex has in a many-names dataset: none, one short of the
\* most, or the most
BulkSizes == {0, MaxBulk - 1, MaxBulk}

BulkDatasets ==
    {q \o Bulk(nm, nf, pat) :
        q \in SeqsUpTo(1), nm \in BulkSizes, nf \in BulkSizes, pat \in Patterns}

\* an empty response is a dataset too: DogData refuses it
Datasets == SeqsUpTo(MaxLen) \cup BulkDatasets

YearArgs == {None, Some(0), Some(2020), Some(2021)}

\* three distinct rows, for the datasets whose content is only passed on
FewRows == {Row("Mi", "1", 2015, 2020, 1), Row("Bo", "2", 2015, 2021, 2),
            Row("?", "2", 2015, 2020, 1)}

FewDatasets == SeqsOver(FewRows, MaxLen + 1)

-----------------------------------------------------------------------------
(* DogData: the reusable iterator. *)

\* DogData.__init__ (the empty case raises ValueError, see Retrieve)
DogData(data) ==
    [data |-> [i \in 1..Len(data) |-> from_dict(data[i])], current |-> 0]

\* __iter__ returning self with the cursor left where it is
DogData_iter_no_reset(obj) == obj

\* DogData.__iter__: reset the cursor, return self
DogData_iter(obj) == [obj EXCEPT !.current = 0]

\* DogData.__next__ does not raise StopIteration
HasNext(obj) == obj.current < Len(obj.data)

\* DogData.__next__ when it returns: the element and the advanced object
DogData_next(obj) ==
    [dog |-> obj.data[obj.current + 1],
     obj |-> [obj EXCEPT !.current = obj.current + 1]]

\* a for loop (or list(), or filter()) over a DogData, run to StopIteration
RECURSIVE Drain(_, _)
Drain(obj, out) ==
    IF HasNext(obj)
    THEN LET n == DogData_next(obj) IN Drain(n.obj, Append(out, n.dog))
    ELSE [obj |-> obj, out |-> out]

ForEach(obj) == Drain(DogData_iter(obj), <<>>)

-----------------------------------------------------------------------------
(* analyze and DogStats. *)

\* dict.get(key, default) on the item list
DictGet(d, key, default) ==
    IF \E i \in 1..Len(d) : d[i][1] = key
    THEN d[CHOOSE i \in 1..Len(d) : d[i][1] = key][2]
    ELSE default

\* d[key] = value: an existing key keeps its place, a new key goes last
DictSet(d, key, value) ==
    IF \E i \in 1..Len(d) : d[i][1] = key
    THEN [i \in 1..Len(d) |-> IF d[i][1] = key THEN <<key, value>> ELSE d[i]]
    ELSE Append(d, <<key, value>>)

\* where a stable descending sort puts x among already sorted items:
\* behind every item whose count is at least x's
InsertDesc(sorted, x) ==
    LET k == Cardinality({i \in 1..Len(sorted) : sorted[i][2] >= x[2]})
    IN  SubSeq(sorted, 1, k) \o <<x>> \o SubSeq(sorted, k + 1, Len(sorted))

\* sorted(items, key=lambda x: x[1], reverse=True): stable, so items of
\* equal count keep their original order
RECURSIVE SortedByCountDesc(_)
SortedByCountDesc(items) ==
    IF items = <<>> THEN <<>>
    ELSE InsertDesc(SortedByCountDesc(SubSeq(items, 1, Len(items) - 1)),
                    items[Len(items)])

\* the locals of analyze before the loop
AnalyzeInit ==
    [longest_name |-> "", shortest_name |-> None,
     male_name_count |-> <<>>, female_name_count |-> <<>>,
     male_dog_count |-> 0, female_dog_count |-> 0,
     first_year |-> None, last_year |-> 0]

\* the loop body of analyze behind the placeholder test
AnalyzeUpdate(a, dog) ==
    [longest_name |->
        IF Len(dog.name) > Len(a.longest_name) THEN dog.name ELSE a.longest_name,
     shortest_name |->
        IF a.shortest_name = None \/ Len(dog.name) < Len(a.shortest_name[1])
        THEN Some(dog.name) ELSE a.shortest_name,
     first_year |->
        IF a.first_year = None \/ a.first_year[1] > dog.record_year
        THEN Some(dog.record_year) ELSE a.first_year,
     last_year |->
        IF a.last_year < dog.record_year THEN dog.record_year ELSE a.last_year,
     male_name_count |->
        IF dog.sex = MALE
        THEN DictSet(a.male_name_count, dog.name,
                     DictGet(a.male_name_count, dog.name, 0) + dog.count)
        ELSE a.male_name_count,
     male_dog_count |->
        IF dog.sex = MALE THEN a.male_dog_count + dog.count ELSE a.male_dog_count,
     female_name_count |->
        IF dog.sex = MALE THEN a.female_name_count
        ELSE DictSet(a.female_name_count, dog.name,
                     DictGet(a.female_name_count, dog.name, 0) + dog.count),
     female_dog_count |->
        IF dog.sex = MALE THEN a.female_dog_count ELSE a.female_dog_count + dog.count]

\* the loop body with the placeholder test left out
AnalyzeBodyNoSkip(a, dog) == AnalyzeUpdate(a, dog)

\* one pass of the loop body of analyze over dog
AnalyzeBody(a, dog) ==
    IF dog.name = "?" THEN a ELSE AnalyzeUpdate(a, dog)

RECURSIVE AnalyzeLoop(_, _, _)
AnalyzeLoop(a, dogs, i) ==
    IF i > Len(dogs) THEN a
    ELSE AnalyzeLoop(AnalyzeBody(a, dogs[i]), dogs, i + 1)

\* the dogs the loop of analyze sees: filter(...) if year else dog_data
YearFiltered(dogs, yr) ==
    IF Truthy(yr) THEN LET Keep(dog) == dog.record_year = yr[1]
                       IN  SelectSeq(dogs, Keep)
    ELSE dogs

\* the [:10] of analyze and the default of DogStats.top_limit
TopLimit == 10

\* analyze(dog_data, year) over the dogs that iterating dog_data yields
analyze(dogs, yr) ==
    LET a == AnalyzeLoop(AnalyzeInit, YearFiltered(dogs, yr), 1)
    IN  [name_longest     |-> a.longest_name,
         name_shortest    |-> a.shortest_name,
         top_names_male   |-> Take(SortedByCountDesc(a.male_name_count), TopLimit),
         top_names_female |-> Take(SortedByCountDesc(a.female_name_count), TopLimit),
         dog_count_male   |-> a.male_dog_count,
         dog_count_female |-> a.female_dog_count,
         first_year       |-> a.first_year,
         last_year        |-> a.last_year,
         top_limit        |-> TopLimit]

\* DogStats.dog_count_overall
dog_count_overall(st) == st.dog_count_male + st.dog_count_female

\* the merged list sorted but not cut to top_limit
top_names_overall_uncut(st) ==
    SortedByCountDesc(st.top_names_male \o st.top_names_female)

\* DogStats.top_names_overall
top_names_overall(st) ==
    Take(SortedByCountDesc(st.top_names_male \o st.top_names_female), st.top_limit)

-----------------------------------------------------------------------------
(* Singleton and DogDataCache, as the commands use them: DogDataCache()(). *)

Traversals == {1, 2}
Callers == {1, 2}

\* Singleton.__call__ finds no instance and DogData.__init__ raises ValueError
FetchFails == instances = None /\ source = <<>>

\* the heap after DogDataCache()(): a first call retrieves and stores
HeapAfterCall ==
    IF instances = None THEN Append(heap, DogData(source)) ELSE heap

\* Singleton._instances after DogDataCache()()
InstancesAfterCall ==
    IF instances = None THEN Some(Len(heap) + 1) ELSE instances

\* DogData.retrieve calls made by DogDataCache()()
FetchesAfterCall == IF instances = None THEN fetches + 1 ELSE fetches

Idle ==
    /\ tpc = [t \in Traversals |-> "idle"]
    /\ yielded = [t \in Traversals |-> <<>>]
    /\ tobj = [t \in Traversals |-> 0]
    /\ cpc = [c \in Callers |-> "idle"]
    /\ past = <<>>
    /\ chosen_sex = None
    /\ image = "none"

-----------------------------------------------------------------------------
(* The stats command. *)

InitStats ==
    /\ source \in Datasets
    /\ year \in YearArgs
    /\ heap = <<>>
    /\ instances = None
    /\ fetches = 0
    /\ arg_name = ""
    /\ pc = "stats"
    /\ s = None
    /\ result = <<>>
    /\ output = ""
    /\ Idle

\* stats: the retrieval failed, sys.exit(-1)
StatsExit ==
    /\ pc = "stats"
    /\ FetchFails
    /\ fetches' = fetches + 1
    /\ pc' = "exit"
    /\ output' = "failed to retrieve dog data"
    /\ UNCHANGED <<source, heap, instances, year, arg_name, s, result,
                   tpc, yielded, tobj, cpc, past,
                   chosen_sex, image>>

\* stats: analyze the cached data, then report no data or render
Stats ==
    /\ pc = "stats"
    /\ ~FetchFails
    /\ LET id == InstancesAfterCall[1]
           tr == ForEach(HeapAfterCall[id])
           st == analyze(tr.out, year)
       IN  /\ heap' = [HeapAfterCall EXCEPT ![id] = tr.obj]
           /\ s' = Some(st)
           /\ output' = IF st.first_year = None
                        THEN "no data available" ELSE "rendered"
    /\ instances' = InstancesAfterCall
    /\ fetches' = FetchesAfterCall
    /\ pc' = "done"
    /\ UNCHANGED <<source, year, arg_name, result, tpc, yielded, tobj, cpc, past,
                   chosen_sex, image>>

NextStats == StatsExit \/ Stats

SpecStats == InitStats /\ [][NextStats]_vars

-----------------------------------------------------------------------------
(* What the claims about analyze speak of. *)

\* the stats command has run analyze
StatsDone == pc = "done" /\ s # None

\* the summary it computed
St == s[1]

\* the dogs of the cached collection, in order
Data == heap[instances[1]].data

\* the records of dogs with record_year = y
OfYear(dogs, y) == LET Keep(dog) == dog.record_year = y IN SelectSeq(dogs, Keep)

\* the records that pass the year filter yr (every record when none is given)
\* and are not skipped for the placeholder name
Surviving(dogs, yr) ==
    LET Keep(dog) == dog.name # "?" /\ (yr = None \/ dog.record_year = yr[1])
    IN  SelectSeq(dogs, Keep)

\* the records whose name is not the placeholder
WithoutPlaceholder(dogs) ==
    LET Keep(dog) == dog.name # "?" IN SelectSeq(dogs, Keep)

\* the sum of count over the records of dogs with this sex and name
RECURSIVE Total(_, _, _)
Total(dogs, sex, name) ==
    IF dogs = <<>> THEN 0
    ELSE (IF Head(dogs).sex = sex /\ Head(dogs).name = name
          THEN Head(dogs).count ELSE 0) + Total(Tail(dogs), sex, name)

NamesOf(dogs, sex) == {dogs[i].name : i \in {j \in 1..Len(dogs) : dogs[j].sex = sex}}

NonIncreasing(items) ==
    \A i \in 1..Len(items) : \A j \in i..Len(items) : items[i][2] >= items[j][2]

\* how often item e occurs in the list
Occurrences(items, e) == Cardinality({i \in 1..Len(items) : items[i] = e})

\* top is the top list of the survivors surv for sex, as C2 describes it
IsTopList(top, surv, sex) ==
    LET listed == {top[i][1] : i \in 1..Len(top)}
    IN  /\ \A i \in 1..Len(top) :
              /\ top[i][1] \in NamesOf(surv, sex)
              /\ top[i][2] = Total(surv, sex, top[i][1])
        /\ Len(top) = Min2(10, Cardinality(NamesOf(surv, sex)))
        /\ NonIncreasing(top)
        /\ \A n \in NamesOf(surv, sex) \ listed : \A i \in 1..Len(top) :
              Total(surv, sex, n) <= top[i][2]

\* C1: analyze(records, year=Y) returns the summary analyze returns, without
\* a year, on the records filtered to record_year = Y, for every year Y.
C1_YearFilterEquivalence ==
    (StatsDone /\ year # None) => St = analyze(OfYear(Data, year[1]), None)

\* C2: each top-names list pairs each listed name with the sum of count over
\* the surviving records of that sex and name, has min(10, distinct names)
\* entries, is non-increasing, and leaves out no name with a greater total.
C2_TopNames ==
    StatsDone =>
        /\ IsTopList(St.top_names_male, Surviving(Data, year), MALE)
        /\ IsTopList(St.top_names_female, Surviving(Data, year), FEMALE)

\* C3: top_names_overall has at most 10 entries; they are the highest-count
\* entries of top_names_male + top_names_female in non-increasing order.
C3_TopNamesOverall ==
    StatsDone =>
        LET both == St.top_names_male \o St.top_names_female
            top  == top_names_overall(St)
            all  == {both[i] : i \in 1..Len(both)}
        IN  /\ Len(top) <= 10
            /\ Len(top) = Min2(10, Len(both))
            /\ NonIncreasing(top)
            /\ \A i \in 1..Len(top) : top[i] \in all
            /\ \A e \in all :
                  /\ Occurrences(top, e) <= Occurrences(both, e)
                  /\ Occurrences(top, e) < Occurrences(both, e) =>
                        \A i \in 1..Len(top) : e[2] <= top[i][2]

\* both per-sex lists are full, the overall list was cut to 10, and each
\* per-sex list has an entry above and an entry below the cut
C3_Witness ==
    /\ StatsDone
    /\ Len(St.top_names_male) = 10
    /\ Len(St.top_names_female) = 10
    /\ LET top == top_names_overall(St)
       IN  /\ Len(top) = 10
           /\ St.top_names_male[1][2] > top[10][2]
           /\ St.top_names_female[1][2] > top[10][2]
           /\ St.top_names_male[10][2] < top[10][2]
           /\ St.top_names_female[10][2] < top[10][2]

\* C4: a record named "?" is skipped as a whole row: the summary equals the
\* summary of the collection without its "?" records, and "?" is in neither
\* name_longest, name_shortest nor a top-names list.
C4_PlaceholderSkipped ==
    StatsDone =>
        /\ St = analyze(WithoutPlaceholder(Data), year)
        /\ St.name_longest # "?"
        /\ St.name_shortest # Some("?")
        /\ \A i \in 1..Len(St.top_names_male) : St.top_names_male[i][1] # "?"
        /\ \A i \in 1..Len(St.top_names_female) : St.top_names_female[i][1] # "?"

\* a "?" record that no filter drops stands before a named record
C4_Witness ==
    /\ StatsDone
    /\ year = None
    /\ Len(Data) >= 2
    /\ Data[1].name = "?"
    /\ Data[2].name # "?"
    /\ Data[1].record_year < Data[2].record_year
    /\ St.first_year = Some(Data[2].record_year)

\* the first record of dogs whose name length is extremal
FirstShortest(dogs) ==
    dogs[CHOOSE i \in 1..Len(dogs) :
            /\ \A j \in 1..Len(dogs) : Len(dogs[i].name) <= Len(dogs[j].name)
            /\ \A j \in 1..(i - 1) : Len(dogs[j].name) > Len(dogs[i].name)].name

FirstLongest(dogs) ==
    dogs[CHOOSE i \in 1..Len(dogs) :
            /\ \A j \in 1..Len(dogs) : Len(dogs[i].name) >= Len(dogs[j].name)
            /\ \A j \in 1..(i - 1) : Len(dogs[j].name) < Len(dogs[i].name)].name

\* C5: name_shortest (name_longest) is the name of the first surviving
\* record of minimal (maximal) name length; records of a filtered-out year
\* have no influence, so without survivors neither name is set.
C5_ExtremalNames ==
    StatsDone =>
        LET surv == Surviving(Data, year)
        IN  IF surv = <<>>
            THEN St.name_shortest = None /\ St.name_longest = ""
            ELSE /\ St.name_shortest = Some(FirstShortest(surv))
                 /\ St.name_longest = FirstLongest(surv)

\* C6: first_year is unset exactly when no record survives; otherwise it is
\* the least and last_year the greatest surviving record_year, both equal to
\* the filter year when one is given; stats reports "no data available"
\* exactly when first_year is unset.
C6_YearRange ==
    pc = "done" =>
        LET surv  == Surviving(Data, year)
            years == {surv[i].record_year : i \in 1..Len(surv)}
        IN  /\ s # None
            /\ St.first_year = None <=> surv = <<>>
            /\ surv # <<>> =>
                  /\ St.first_year[1] \in years
                  /\ St.last_year \in years
                  /\ \A y \in years : St.first_year[1] <= y /\ y <= St.last_year
                  /\ year # None =>
                        St.first_year = year /\ St.last_year = year[1]
            /\ output = "no data available" <=> St.first_year = None
            /\ output = "rendered" <=> St.first_year # None

-----------------------------------------------------------------------------
(* Traversals of one DogData, step by step. *)

InitIter ==
    /\ source \in FewDatasets \ {<<>>}
    /\ heap = <<DogData(source)>>
    /\ instances = None
    /\ fetches = 0
    /\ year = None
    /\ arg_name = ""
    /\ pc = "iterate"
    /\ s = None
    /\ result = <<>>
    /\ output = ""
    /\ Idle

\* iter(dog_data) by traversal t; a traversal t had under way is given up
Iter(t) ==
    /\ pc = "iterate"
    /\ Len(past) < MaxIters
    /\ heap' = [heap EXCEPT ![1] = DogData_iter(heap[1])]
    /\ tobj' = [tobj EXCEPT ![t] = 1]
    /\ yielded' = [yielded EXCEPT ![t] = <<>>]
    /\ tpc' = [tpc EXCEPT ![t] = "iterating"]
    /\ past' = IF tpc[t] = "idle" THEN past
               ELSE Append(past, IF tpc[t] = "done" THEN "exhausted"
                                 ELSE IF yielded[t] = <<>> THEN "unused"
                                 ELSE "abandoned")
    /\ UNCHANGED <<source, instances, fetches, year, arg_name, pc, s, result,
                   output, cpc,
                   chosen_sex, image>>

\* next(iterator) by traversal t returns a dog
NextDog(t) ==
    /\ pc = "iterate"
    /\ tpc[t] = "iterating"
    /\ HasNext(heap[tobj[t]])
    /\ LET n == DogData_next(heap[tobj[t]])
       IN  /\ heap' = [heap EXCEPT ![tobj[t]] = n.obj]
           /\ yielded' = [yielded EXCEPT ![t] = Append(@, n.dog)]
    /\ UNCHANGED <<source, instances, fetches, year, arg_name, pc, s, result,
                   output, tpc, tobj, cpc, past,
                   chosen_sex, image>>

\* next(iterator) by traversal t raises StopIteration: the traversal ends
NextStop(t) ==
    /\ pc = "iterate"
    /\ tpc[t] = "iterating"
    /\ ~HasNext(heap[tobj[t]])
    /\ tpc' = [tpc EXCEPT ![t] = "done"]
    /\ UNCHANGED <<source, heap, instances, fetches, year, arg_name, pc, s,
                   result, output, yielded, tobj, cpc, past,
                   chosen_sex, image>>

\* one consumer: a traversal begins only by giving up or after the one before
NextIter == Iter(1) \/ NextDog(1) \/ NextStop(1)

SpecIter == InitIter /\ [][NextIter]_vars

\* C7: a traversal begun with iter() on a non-empty collection and run to the
\* end yields exactly the records the collection was built from, in order,
\* whatever traversals came before it, run to the end or abandoned.
C7_ReIterable ==
    tpc[1] = "done" =>
        /\ Len(yielded[1]) = Len(source)
        /\ \A i \in 1..Len(source) : yielded[1][i] = from_dict(source[i])

\* a traversal ended after one run to the end and one abandoned part-way
C7_Witness ==
    /\ tpc[1] = "done"
    /\ Len(source) >= 2
    /\ \E i, j \in 1..Len(past) : past[i] = "exhausted" /\ past[j] = "abandoned"

-----------------------------------------------------------------------------
(* DogDataCache()() step by step: Singleton.__call__, DogDataCache.__init__ *)
(* and DogDataCache.__call__.                                              *)

InitCache ==
    /\ source \in FewDatasets
    /\ heap = <<>>
    /\ instances = None
    /\ fetches = 0
    /\ year = None
    /\ arg_name = ""
    /\ pc = "host"
    /\ s = None
    /\ result = <<>>
    /\ output = ""
    /\ Idle

\* a test that finds no instance whatever is stored
NotInInstancesAlways == TRUE

\* cls not in cls._instances
NotInInstances == instances = None

\* caller c enters Singleton.__call__ and tests cls not in cls._instances
Enter(c) ==
    /\ pc = "host"
    /\ cpc[c] \in {"idle", "returned"}
    /\ Len(past) < MaxCalls
    /\ cpc' = [cpc EXCEPT ![c] = IF NotInInstances THEN "construct" ELSE "return"]
    /\ tobj' = [tobj EXCEPT ![c] = 0]
    /\ UNCHANGED <<source, heap, instances, fetches, year, arg_name, pc, s,
                   result, output, tpc, yielded, past,
                   chosen_sex, image>>

\* super().__call__(): DogDataCache.__init__ retrieves the data; an empty
\* response raises ValueError out of the call
Construct(c) ==
    /\ pc = "host"
    /\ cpc[c] = "construct"
    /\ fetches' = fetches + 1
    /\ IF source = <<>>
       THEN /\ cpc' = [cpc EXCEPT ![c] = "raised"]
            /\ UNCHANGED <<heap, tobj,
                   chosen_sex, image>>
       ELSE /\ heap' = Append(heap, DogData(source))
            /\ tobj' = [tobj EXCEPT ![c] = Len(heap) + 1]
            /\ cpc' = [cpc EXCEPT ![c] = "store"]
    /\ UNCHANGED <<source, instances, year, arg_name, pc, s, result, output,
                   tpc, yielded, past,
                   chosen_sex, image>>

\* cls._instances[cls] = the new instance
Store(c) ==
    /\ pc = "host"
    /\ cpc[c] = "store"
    /\ instances' = Some(tobj[c])
    /\ cpc' = [cpc EXCEPT ![c] = "return"]
    /\ UNCHANGED <<source, heap, fetches, year, arg_name, pc, s, result,
                   output, tpc, yielded, tobj, past,
                   chosen_sex, image>>

\* return cls._instances[cls], then its __call__ returns its dog_data
Return(c) ==
    /\ pc = "host"
    /\ cpc[c] = "return"
    /\ tobj' = [tobj EXCEPT ![c] = instances[1]]
    /\ cpc' = [cpc EXCEPT ![c] = "returned"]
    /\ past' = Append(past, instances[1])
    /\ UNCHANGED <<source, heap, instances, fetches, year, arg_name, pc, s,
                   result, output, tpc, yielded,
                   chosen_sex, image>>

\* the command that called sees ValueError and leaves with sys.exit(-1)
Exit(c) ==
    /\ pc = "host"
    /\ cpc[c] = "raised"
    /\ pc' = "exit"
    /\ output' = "failed to retrieve dog data"
    /\ UNCHANGED <<source, heap, instances, fetches, year, arg_name, s, result,
                   tpc, yielded, tobj, cpc, past,
                   chosen_sex, image>>

\* no other caller is inside DogDataCache()()
Alone(c) == \A d \in Callers \ {c} : cpc[d] \in {"idle", "returned"}

\* calls one after the other, from either call site
NextCache ==
    \E c \in Callers :
        \/ Alone(c) /\ Enter(c)
        \/ Construct(c)
        \/ Store(c)
        \/ Return(c)
        \/ Exit(c)

SpecCache == InitCache /\ [][NextCache]_vars

\* callers on threads of one host, the URL serving data: their steps
\* interleave freely
InitCacheThreads == InitCache /\ source # <<>>

NextCacheThreads ==
    \E c \in Callers :
        \/ Enter(c)
        \/ Construct(c)
        \/ Store(c)
        \/ Return(c)

SpecCacheThreads == InitCacheThreads /\ [][NextCacheThreads]_vars

\* every call that returned got the same object
SameCollection == \A i, j \in 1..Len(past) : past[i] = past[j]

\* C8: over calls made one after the other the data is fetched at most once:
\* the first call fetches, every later call returns the same collection
\* object without fetching.
C8_FetchedOnce ==
    /\ fetches <= 1
    /\ Len(heap) <= 1
    /\ past # <<>> => fetches = 1
    /\ SameCollection
    /\ \A c \in Callers : cpc[c] = "returned" => tobj[c] = past[1]

\* both call sites have called, three calls in all have returned
C8_Witness ==
    /\ Len(past) = 3
    /\ \A c \in Callers : cpc[c] = "returned"
    /\ fetches = 1

\* C9: with callers that call concurrently before the cache is initialized,
\* the data is fetched at most once and all callers get the same collection.
C9_SingleFlight ==
    /\ fetches <= 1
    /\ SameCollection

-----------------------------------------------------------------------------
(* The find command. *)

FindNames == {"Mi", "Max", "Rex"}

InitFind ==
    /\ source \in SeqsUpTo(MaxLen)
    /\ year \in YearArgs
    /\ arg_name \in FindNames
    /\ heap = <<>>
    /\ instances = None
    /\ fetches = 0
    /\ pc = "find"
    /\ s = None
    /\ result = <<>>
    /\ output = ""
    /\ Idle

\* max(dogs, key=lambda dog: dog.record_year).record_year of a non-empty list
MaxRecordYear(dogs) ==
    CHOOSE y \in {dogs[i].record_year : i \in 1..Len(dogs)} :
        \A i \in 1..Len(dogs) : dogs[i].record_year <= y

\* ctx.obj["year"] or max(...).record_year
TargetYear(yr, matching_name) ==
    IF Truthy(yr) THEN yr[1] ELSE MaxRecordYear(matching_name)

\* find: the retrieval failed, sys.exit(-1)
FindExit ==
    /\ pc = "find"
    /\ FetchFails
    /\ fetches' = fetches + 1
    /\ pc' = "exit"
    /\ output' = "failed to retrieve dog data"
    /\ UNCHANGED <<source, heap, instances, year, arg_name, s, result,
                   tpc, yielded, tobj, cpc, past,
                   chosen_sex, image>>

\* find: select by name, then by year, and report
Find ==
    /\ pc = "find"
    /\ ~FetchFails
    /\ LET id == InstancesAfterCall[1]
           tr == ForEach(HeapAfterCall[id])
           HasName(dog) == dog.name = arg_name
           matching_name == SelectSeq(tr.out, HasName)
       IN  /\ heap' = [HeapAfterCall EXCEPT ![id] = tr.obj]
           /\ IF Len(matching_name) = 0
              THEN /\ output' = "no result for name"
                   /\ result' = <<>>
              ELSE LET y == TargetYear(year, matching_name)
                       InYear(dog) == dog.record_year = y
                       found == SelectSeq(matching_name, InYear)
                   IN  /\ result' = found
                       /\ output' = IF Len(found) = 0
                                    THEN "no result for year" ELSE "results"
    /\ instances' = InstancesAfterCall
    /\ fetches' = FetchesAfterCall
    /\ pc' = "done"
    /\ UNCHANGED <<source, year, arg_name, s, tpc, yielded, tobj, cpc, past,
                   chosen_sex, image>>

NextFind == FindExit \/ Find

SpecFind == InitFind /\ [][NextFind]_vars

\* C10: find reports "no result for name" when no record has the name;
\* otherwise, with the target year the filter year if one is given and else
\* the greatest record_year of the name's records, "no result for year" when
\* none of them has the target year, and otherwise exactly those that have.
C10_FindOutcome ==
    pc = "done" =>
        LET HasName(dog) == dog.name = arg_name
            named  == SelectSeq(Data, HasName)
            target == IF year # None THEN year[1] ELSE MaxRecordYear(named)
            InTarget(dog) == dog.record_year = target
        IN  IF named = <<>>
            THEN output = "no result for name" /\ result = <<>>
            ELSE IF SelectSeq(named, InTarget) = <<>>
            THEN output = "no result for year" /\ result = <<>> /\ year # None
            ELSE output = "results" /\ result = SelectSeq(named, InTarget)

-----------------------------------------------------------------------------
(* The year 0.  C1, C2, C5, C6, C10 and C11 fail at the year argument 0,   *)
(* which analyze, find and create take for no year; at every other year    *)
(* argument of the model TLC finds them to hold, under SpecStats, SpecFind *)
(* and SpecCreate.                                                         *)

YearNotZero == year # Some(0)

\* C1 at every year argument but 0
C1_ExceptYearZero == YearNotZero => C1_YearFilterEquivalence

\* C2 at every year argument but 0
C2_ExceptYearZero == YearNotZero => C2_TopNames

\* C5 at every year argument but 0
C5_ExceptYearZero == YearNotZero => C5_ExtremalNames

\* C6 at every year argument but 0
C6_ExceptYearZero == YearNotZero => C6_YearRange

\* C10 at every year argument but 0
C10_ExceptYearZero == YearNotZero => C10_FindOutcome

-----------------------------------------------------------------------------
(* The create command. *)

InitCreate ==
    /\ source \in SeqsUpTo(MaxLen)
    /\ year \in YearArgs
    /\ arg_name = ""
    /\ heap = <<>>
    /\ instances = None
    /\ fetches = 0
    /\ pc = "create"
    /\ s = None
    /\ result = <<>>
    /\ output = ""
    /\ Idle

\* the two list comprehensions of create: by sex, then by year if it is truthy
MatchingDogs(dogs, sx, yr) ==
    LET OfSex(dog) == dog.sex = sx
        InYear(dog) == dog.record_year = yr[1]
        by_sex == SelectSeq(dogs, OfSex)
    IN  IF Truthy(yr) THEN SelectSeq(by_sex, InYear) ELSE by_sex

\* how the picture part of create can fail: the list request raises
\* RequestException, the list holds no allowed image (random.choice raises
\* IndexError), the download raises RequestException before or while the file
\* is written, or the size check of download_file raises ValueError
ImageFailures ==
    {[raises |-> "RequestException", image |-> "requested"],
     [raises |-> "IndexError",       image |-> "requested"],
     [raises |-> "RequestException", image |-> "partial"],
     [raises |-> "ValueError",       image |-> "partial"]}

\* create: the retrieval failed, sys.exit(-1)
CreateExit ==
    /\ pc = "create"
    /\ FetchFails
    /\ fetches' = fetches + 1
    /\ pc' = "exit"
    /\ output' = "failed to retrieve dog data"
    /\ UNCHANGED <<source, heap, instances, year, arg_name, s, result,
                   tpc, yielded, tobj, cpc, past, chosen_sex, image>>

\* the cache call and the traversal that create makes before it samples
CreateRead ==
    /\ pc = "create"
    /\ ~FetchFails
    /\ LET id == InstancesAfterCall[1]
       IN  heap' = [HeapAfterCall EXCEPT ![id] = ForEach(HeapAfterCall[id]).obj]
    /\ instances' = InstancesAfterCall
    /\ fetches' = FetchesAfterCall
    /\ UNCHANGED <<source, year, arg_name, s, tpc, yielded, tobj, cpc, past>>

\* the dogs create read from the cache
CreateDogs == ForEach(HeapAfterCall[InstancesAfterCall[1]]).out

\* create: nothing matches, random.choice raises IndexError at the first draw
CreateNoMatch(sx) ==
    /\ CreateRead
    /\ MatchingDogs(CreateDogs, sx, year) = <<>>
    /\ chosen_sex' = Some(sx)
    /\ pc' = "raised"
    /\ output' = "IndexError"
    /\ UNCHANGED <<result, image>>

\* create: name and birth year are drawn, the picture is fetched and written
Create(sx, i, j) ==
    /\ CreateRead
    /\ LET matching_dogs == MatchingDogs(CreateDogs, sx, year)
       IN  /\ i \in 1..Len(matching_dogs)
           /\ j \in 1..Len(matching_dogs)
           /\ result' = <<[name |-> matching_dogs[i].name,
                           birth_year |-> matching_dogs[j].birth_year,
                           sex |-> sx]>>
    /\ chosen_sex' = Some(sx)
    /\ image' = "written"
    /\ pc' = "done"
    /\ output' = "printed"

\* create: name and birth year are drawn, the picture part fails
CreateImageFails(sx, i, j, f) ==
    /\ CreateRead
    /\ LET matching_dogs == MatchingDogs(CreateDogs, sx, year)
       IN  /\ i \in 1..Len(matching_dogs)
           /\ j \in 1..Len(matching_dogs)
           /\ result' = <<[name |-> matching_dogs[i].name,
                           birth_year |-> matching_dogs[j].birth_year,
                           sex |-> sx]>>
    /\ chosen_sex' = Some(sx)
    /\ image' = f.image
    /\ pc' = IF f.raises = "RequestException" THEN "exit" ELSE "raised"
    /\ output' = IF f.raises = "RequestException"
                 THEN "failed to download dog picture" ELSE f.raises

NextCreate ==
    \/ CreateExit
    \/ \E sx \in {MALE, FEMALE} : CreateNoMatch(sx)
    \/ \E sx \in {MALE, FEMALE} : \E i, j \in 1..MaxLen : Create(sx, i, j)
    \/ \E sx \in {MALE, FEMALE} : \E i, j \in 1..MaxLen : \E f \in ImageFailures :
          CreateImageFails(sx, i, j, f)

SpecCreate == InitCreate /\ [][NextCreate]_vars

\* C11: create fails with the no-match error (Python's IndexError out of
\* random.choice) when no record has the drawn sex and, if a year is given,
\* that record year; then nothing is sampled and no picture is requested or
\* written.
C11_NoMatch ==
    chosen_sex # None =>
        LET Matches(dog) ==
                /\ dog.sex = chosen_sex[1]
                /\ year = None \/ dog.record_year = year[1]
        IN  SelectSeq(Data, Matches) = <<>> =>
                /\ pc = "raised"
                /\ output = "IndexError"
                /\ result = <<>>
                /\ image = "none"

\* C11 at every year argument but 0
C11_ExceptYearZero == YearNotZero => C11_NoMatch

-----------------------------------------------------------------------------
(* Two traversals of one DogData whose steps interleave, as in a loop over *)
(* the collection nested in another loop over it.                          *)

\* traversal t has not begun: each of the two loops calls iter() once
NotBegun(t) == tpc[t] = "idle"

NextIterBoth ==
    \E t \in Traversals :
        \/ NotBegun(t) /\ Iter(t)
        \/ NextDog(t)
        \/ NextStop(t)

SpecIterBoth == InitIter /\ [][NextIterBoth]_vars

\* C12: traversals of one collection are independent: also when a second is
\* begun while a first is under way and their steps interleave, each one that
\* ends has yielded every record exactly once, in order from the first.
C12_IndependentTraversals ==
    \A t \in Traversals :
        tpc[t] = "done" => yielded[t] = heap[tobj[t]].data

====
